---- MODULE Spec2Model ----
(***************************************************************************)
(* Model of web-timing-safe-equal: webTimingSafeEqual, hmac and            *)
(* generateSecretKey, with the SubtleCrypto provider as an environment     *)
(* whose promises resolve or reject in any order.                          *)
(***************************************************************************)
EXTENDS Integers, Sequences, FiniteSets, TLC

(* ------------------------------ bounds --------------------------------- *)

\* longest text given as input, in UTF-16 code units
MaxTextLen == 1
\* longest byte array given as input
MaxBytesLen == 2
\* number of distinct random key materials the provider may draw
NumKeys == 2

(* --------------------------- JavaScript values ------------------------- *)

Undefined == [type |-> "undefined"]
\* a string, as its sequence of UTF-16 code units
Str(s) == [type |-> "string", v |-> s]
\* a string naming an algorithm
Alg(name) == [type |-> "string", v |-> name]
U8(b) == [type |-> "Uint8Array", v |-> b]
Num(n) == [type |-> "number", v |-> n]
CryptoKey(hash, length, material) ==
    [type |-> "CryptoKey", hash |-> hash, length |-> length, v |-> material]

\* JavaScript truthiness, as used by `if (x)`, `x || y` and `x ? a : b`
Truthy(x) ==
    CASE x.type = "undefined" -> FALSE
      [] x.type = "string" -> Len(x.v) > 0
      [] x.type = "number" -> x.v # 0
      [] OTHER -> TRUE

\* a default parameter value applies only to undefined
DefaultTo(x, d) == IF x.type = "undefined" THEN d ELSE x

(* ------------------------------- errors -------------------------------- *)

InvalidAlgorithm == "InvalidAlgorithm"
InvalidInputType == "InvalidInputType"
ProviderFailure == "ProviderFailure"

Pending == [kind |-> "pending"]
Return(x) == [kind |-> "return", value |-> x]
Throw(e) == [kind |-> "throw", value |-> e]

(* ------------------------- validateAlgorithm --------------------------- *)

allowedAlgorithms == {"SHA-1", "SHA-256", "SHA-384", "SHA-512"}

\* TRUE when validateAlgorithm returns, FALSE when it throws
validateAlgorithm(algorithm) ==
    algorithm.type = "string" /\ algorithm.v \in allowedAlgorithms

(* ---------------- validateValueOrConvertToUint8Array ------------------- *)

\* a wrong encoder: one byte per code unit (Latin-1), for C2
EncodeUnitLatin1(c) == <<c % 256>>

\* TextEncoder.encode of one UTF-16 code unit (lone surrogates become U+FFFD)
EncodeUnit(c) ==
    IF c < 128 THEN <<c>>
    ELSE IF c < 2048 THEN <<192 + (c \div 64), 128 + (c % 64)>>
    ELSE IF c >= 55296 /\ c <= 57343 THEN <<239, 191, 189>>
    ELSE <<224 + (c \div 4096), 128 + ((c \div 64) % 64), 128 + (c % 64)>>

RECURSIVE TextEncode(_)
TextEncode(s) ==
    IF s = <<>> THEN <<>> ELSE EncodeUnit(Head(s)) \o TextEncode(Tail(s))

\* TRUE when the value passes the type test of lines 181-187
IsStringOrUint8Array(value) == value.type \in {"string", "Uint8Array"}

\* the bytes returned for a value that passes the type test
validateValueOrConvertToUint8Array(value) ==
    IF value.type = "Uint8Array" THEN value.v ELSE TextEncode(value.v)

(* ------------------------ the SubtleCrypto provider -------------------- *)

DigestBytes(hash) ==
    CASE hash = "SHA-1" -> 20
      [] hash = "SHA-256" -> 32
      [] hash = "SHA-384" -> 48
      [] hash = "SHA-512" -> 64

BlockSizeBits(hash) == IF hash \in {"SHA-1", "SHA-256"} THEN 512 ELSE 1024

RECURSIVE KeySeed(_)
KeySeed(k) == IF k = <<>> THEN 0 ELSE (Head(k) + 3 * KeySeed(Tail(k)) + 1) % 256

\* subtle.sign("HMAC", key, data): a digest of the key's own hash, a function
\* of (key material, hash, data) that separates distinct data under one key
ProviderSign(cryptoKey, data) ==
    [i \in 1..DigestBytes(cryptoKey.hash) |->
        (KeySeed(cryptoKey.v) + DigestBytes(cryptoKey.hash) + 31 * Len(data)
           + (IF i <= Len(data) THEN data[i] ELSE 0) + 7 * i) % 256]

\* subtle.importKey("raw", keyData, {name: "HMAC", hash}, false, ["sign"])
ProviderImportKey(keyData, hash) == CryptoKey(hash, 8 * Len(keyData), keyData)

\* subtle.generateKey({name: "HMAC", hash, length?}, true, ["sign"]) drawing
\* the random material m
ProviderGenerateKey(call, m) ==
    CryptoKey(call.hash,
              IF call.length = <<>> THEN BlockSizeBits(call.hash) ELSE call.length[1],
              m)

KeyMaterials == {<<m>> : m \in 1..NumKeys}

(* ------------------------------ hex output ----------------------------- *)

HexDigits == <<"0", "1", "2", "3", "4", "5", "6", "7",
               "8", "9", "a", "b", "c", "d", "e", "f">>

\* Number.prototype.toString(16) of a byte, as its sequence of characters
ToString16(b) ==
    IF b < 16 THEN <<HexDigits[b + 1]>>
    ELSE <<HexDigits[(b \div 16) + 1], HexDigits[(b % 16) + 1]>>

\* String.prototype.padStart(2, "0")
PadStart2(s) == IF Len(s) < 2 THEN <<"0">> \o s ELSE s

\* lines 123-126: the characters of the hex string
RECURSIVE HashHex(_)
HashHex(hashArray) ==
    IF hashArray = <<>> THEN <<>>
    ELSE PadStart2(ToString16(Head(hashArray))) \o HashHex(Tail(hashArray))

(* -------------------------------- state -------------------------------- *)

VARIABLES
    op,        \* the public operation in progress, or "idle"
    args,      \* the arguments it was called with
    pc,        \* "idle", "generateKey" (awaiting the provider), "hmac", "done"
    result,    \* settlement of the promise returned by the operation
    hm,        \* the hmac invocations in flight: <<left, right>>
    log        \* the provider calls made by the operation, in order

vars == <<op, args, pc, result, hm, log>>

Tasks == 1..2

NoTask ==
    [pc |-> "unused", algorithm |-> "", messageUint8Array |-> <<>>,
     keyUint8Array |-> <<>>, cryptoKey |-> Undefined, result |-> Pending]

NoTasks == <<NoTask, NoTask>>

(* -------------------------------- inputs ------------------------------- *)

TextUnits == {97, 233}
ByteUnits == {169, 195}

SeqsUpTo(S, n) == UNION {[1..k -> S] : k \in 0..n}

Strings == {Str(s) : s \in SeqsUpTo(TextUnits, MaxTextLen)}
Uint8Arrays == {U8(b) : b \in SeqsUpTo(ByteUnits, MaxBytesLen)}
Malformed == {Num(5)}
Values == Strings \cup Uint8Arrays \cup Malformed

AlgorithmInputs ==
    {Undefined, Alg(""), Alg("MD5")} \cup {Alg(a) : a \in allowedAlgorithms}
KeyAlgorithmInputs == {Undefined, Alg(""), Alg("MD5"), Alg("SHA-512")}
HmacAlgorithmInputs == {Undefined, Alg(""), Alg("MD5"), Alg("SHA-512")}
KeyLengthInputs == {Undefined, Num(0), Num(32)}
KeyHandles == {CryptoKey(h, 512, <<1>>) : h \in allowedAlgorithms}
SecretKeyInputs ==
    {Undefined, Str(<<>>), Str(<<107>>), U8(<<1>>), Num(5),
     CryptoKey("SHA-512", 512, <<1>>)}
HmacKeyInputs == {Undefined, Str(<<107>>), U8(<<1>>), Num(5)} \cup KeyHandles

Options(secretKey, keyLength, keyAlgorithm, hmacAlgorithm) ==
    [secretKey |-> secretKey, keyLength |-> keyLength,
     keyAlgorithm |-> keyAlgorithm, hmacAlgorithm |-> hmacAlgorithm]

\* the options given to webTimingSafeEqual: every key with every HMAC
\* algorithm, and every key-generation setting with and without a key
OptionsInputs ==
    {Options(k, Undefined, Undefined, h) :
        k \in SecretKeyInputs, h \in HmacAlgorithmInputs}
    \cup {Options(k, n, a, Undefined) :
        k \in {Undefined, Str(<<107>>)}, n \in {Undefined, Num(32)},
        a \in KeyAlgorithmInputs}
    \cup {Options(Undefined, Undefined, Alg("MD5"), Alg("MD5")),
          Options(Num(5), Num(32), Alg("MD5"), Alg("SHA-512"))}

\* the arguments of two hmac calls made together
TwiceInputs ==
    {[secretKey |-> k, algorithm |-> a] :
        k \in {Str(<<107>>), CryptoKey("SHA-256", 512, <<1>>)},
        a \in {Undefined, Alg("SHA-512")}}

(* --------------------------------- hmac -------------------------------- *)

FailedTask(e) == [NoTask EXCEPT !.pc = "failed", !.result = Throw(e)]

\* hmac up to its first await (lines 88-113): the invocation has failed, or
\* awaits importKey, or (given a CryptoKey) awaits sign
hmacEnter(secretKey, message, algorithmArg) ==
    LET algorithm == DefaultTo(algorithmArg, Alg("SHA-256"))
        isCryptoKey == secretKey.type = "CryptoKey"
    IN  IF ~validateAlgorithm(algorithm) THEN FailedTask(InvalidAlgorithm)
        ELSE IF ~IsStringOrUint8Array(message) THEN FailedTask(InvalidInputType)
        ELSE IF ~isCryptoKey /\ ~IsStringOrUint8Array(secretKey)
             THEN FailedTask(InvalidInputType)
        ELSE [pc |-> IF isCryptoKey THEN "sign" ELSE "importKey",
              algorithm |-> algorithm.v,
              messageUint8Array |-> validateValueOrConvertToUint8Array(message),
              keyUint8Array |-> IF isCryptoKey THEN <<>>
                                ELSE validateValueOrConvertToUint8Array(secretKey),
              cryptoKey |-> IF isCryptoKey THEN secretKey ELSE Undefined,
              result |-> Pending]

\* a wrong hmac: the message kept in a variable shared by all invocations,
\* holding that of the latest call, for C7
SignedMessageShared(tasks, i) ==
    IF tasks[2].pc # "unused" THEN tasks[2].messageUint8Array
    ELSE tasks[1].messageUint8Array

\* the message handed to subtle.sign by invocation i
SignedMessage(tasks, i) == tasks[i].messageUint8Array

SignCall(tasks, i) ==
    [fn |-> "sign", task |-> i, key |-> tasks[i].cryptoKey,
     data |-> SignedMessage(tasks, i)]

ImportKeyCall(tasks, i) ==
    [fn |-> "importKey", task |-> i, keyData |-> tasks[i].keyUint8Array,
     hash |-> tasks[i].algorithm]

\* the provider call an invocation makes on entry
Issued(tasks, i) ==
    CASE tasks[i].pc = "importKey" -> <<ImportKeyCall(tasks, i)>>
      [] tasks[i].pc = "sign" -> <<SignCall(tasks, i)>>
      [] OTHER -> <<>>

AnyPending(tasks) == \E i \in Tasks : tasks[i].pc \in {"importKey", "sign"}

PcOf(tasks) == IF AnyPending(tasks) THEN "hmac" ELSE "done"

(* --------------------------- generateSecretKey ------------------------- *)

\* generateSecretKey up to its await (lines 138-158): the generateKey call it
\* makes, or <<>> when validateAlgorithm throws
generateSecretKeyCall(options) ==
    LET keyLength == DefaultTo(options.keyLength, Num(64))
        algorithm == DefaultTo(options.algorithm, Alg("SHA-256"))
    IN  IF ~validateAlgorithm(algorithm) THEN <<>>
        ELSE <<[fn |-> "generateKey", hash |-> algorithm.v,
                length |-> IF Truthy(keyLength) THEN <<keyLength.v * 8>> ELSE <<>>]>>

(* --------------------------- webTimingSafeEqual ------------------------ *)

IndexName == <<"0", "1", "2", "3", "4", "5", "6">>

\* own property names of { ...(x ? x : {}) }: spreading a string yields its
\* index properties, spreading a number or {} yields none
SpreadKeys(x) ==
    IF Truthy(x) /\ x.type = "string"
    THEN {IndexName[i] : i \in 1..Len(x.v)} ELSE {}

\* the object passed to generateSecretKey at lines 45-48, read through the
\* destructuring of line 138
SpreadOptions(options) ==
    LET keys == SpreadKeys(options.keyAlgorithm) \cup SpreadKeys(options.keyLength)
    IN  [keyLength |-> IF "keyLength" \in keys THEN options.keyLength ELSE Undefined,
         algorithm |-> IF "algorithm" \in keys THEN options.keyAlgorithm ELSE Undefined]

\* lines 35-40: TRUE when neither validateAlgorithm call throws
AlgorithmsPass(options) ==
    /\ Truthy(options.keyAlgorithm) => validateAlgorithm(options.keyAlgorithm)
    /\ Truthy(options.hmacAlgorithm) => validateAlgorithm(options.hmacAlgorithm)

\* a wrong test: the zero-length case forgotten, for C1
ShortCircuitLengthOnly(leftUint8Array, rightUint8Array) ==
    Len(leftUint8Array) # Len(rightUint8Array)

\* lines 56-59
ShortCircuit(leftUint8Array, rightUint8Array) ==
    Len(leftUint8Array) # Len(rightUint8Array) \/ Len(leftUint8Array) = 0

\* a wrong comparison: of the lengths of the hex strings, for C3
HmacsEqualLength(leftHMAC, rightHMAC) == Len(leftHMAC) = Len(rightHMAC)

\* line 78
HmacsEqual(leftHMAC, rightHMAC) == leftHMAC = rightHMAC

\* a wrong join: a failed HMAC turned into the answer false, for C10
PromiseAllSwallow(res, tasks, i) ==
    IF res.kind # "pending" THEN res
    ELSE IF tasks[i].pc = "failed" THEN Return(FALSE)
    ELSE IF \A j \in Tasks : tasks[j].pc = "done"
         THEN Return(tasks[1].result.value = tasks[2].result.value)
    ELSE Pending

\* lines 65-78: what the settling of invocation i does to the promise of
\* webTimingSafeEqual; Promise.all rejects on the first rejection and
\* fulfils once both invocations have fulfilled
PromiseAll(res, tasks, i) ==
    IF res.kind # "pending" THEN res
    ELSE IF tasks[i].pc = "failed" THEN Throw(tasks[i].result.value)
    ELSE IF \A j \in Tasks : tasks[j].pc = "done"
         THEN Return(HmacsEqual(tasks[1].result.value, tasks[2].result.value))
    ELSE Pending

\* lines 51-76, run without suspension once secretKey is known
Compare(left, right, options, secretKey, lg) ==
    IF ~IsStringOrUint8Array(left) \/ ~IsStringOrUint8Array(right)
    THEN [result |-> Throw(InvalidInputType), hm |-> NoTasks, log |-> lg]
    ELSE LET leftUint8Array == validateValueOrConvertToUint8Array(left)
             rightUint8Array == validateValueOrConvertToUint8Array(right)
             algorithm == IF Truthy(options.hmacAlgorithm)
                          THEN options.hmacAlgorithm ELSE Undefined
             tasks == <<hmacEnter(secretKey, U8(leftUint8Array), algorithm),
                        hmacEnter(secretKey, U8(rightUint8Array), algorithm)>>
         IN  IF ShortCircuit(leftUint8Array, rightUint8Array)
             THEN [result |-> Return(FALSE), hm |-> NoTasks, log |-> lg]
             ELSE [result |-> PromiseAll(PromiseAll(Pending, tasks, 1), tasks, 2),
                   hm |-> tasks,
                   log |-> lg \o Issued(tasks, 1) \o Issued(tasks, 2)]

(* ------------------------------- actions ------------------------------- *)

Init ==
    /\ op = "idle"
    /\ args = <<>>
    /\ pc = "idle"
    /\ result = Pending
    /\ hm = NoTasks
    /\ log = <<>>

\* a call of webTimingSafeEqual, up to its first suspension
CallWebTimingSafeEqual ==
    /\ pc = "idle"
    /\ \E left \in Values, right \in Values, options \in OptionsInputs :
        LET secretKey == options.secretKey
            call == generateSecretKeyCall(SpreadOptions(options))
            next == Compare(left, right, options, secretKey, <<>>)
        IN  /\ op' = "webTimingSafeEqual"
            /\ args' = [left |-> left, right |-> right, options |-> options]
            /\ IF ~AlgorithmsPass(options)
               THEN /\ result' = Throw(InvalidAlgorithm)
                    /\ pc' = "done"
                    /\ UNCHANGED <<hm, log>>
               ELSE IF Truthy(secretKey)
               THEN /\ result' = next.result
                    /\ hm' = next.hm
                    /\ log' = next.log
                    /\ pc' = PcOf(next.hm)
               ELSE IF call = <<>>
               THEN /\ result' = Throw(InvalidAlgorithm)
                    /\ pc' = "done"
                    /\ UNCHANGED <<hm, log>>
               ELSE /\ log' = call
                    /\ pc' = "generateKey"
                    /\ UNCHANGED <<result, hm>>

\* a call of generateSecretKey, up to its suspension
CallGenerateSecretKey ==
    /\ pc = "idle"
    /\ \E keyLength \in KeyLengthInputs, algorithm \in AlgorithmInputs :
        LET options == [keyLength |-> keyLength, algorithm |-> algorithm]
            call == generateSecretKeyCall(options)
        IN  /\ op' = "generateSecretKey"
            /\ args' = [options |-> options]
            /\ hm' = hm
            /\ IF call = <<>>
               THEN result' = Throw(InvalidAlgorithm) /\ pc' = "done" /\ log' = log
               ELSE result' = result /\ pc' = "generateKey" /\ log' = call

\* a call of hmac, up to its first suspension
CallHmac ==
    /\ pc = "idle"
    /\ \E secretKey \in HmacKeyInputs, message \in Values,
          algorithm \in AlgorithmInputs :
        LET tasks == <<hmacEnter(secretKey, message, algorithm), NoTask>>
        IN  /\ op' = "hmac"
            /\ args' = [secretKey |-> secretKey, message |-> <<message>>,
                        algorithm |-> algorithm]
            /\ hm' = tasks
            /\ log' = Issued(tasks, 1)
            /\ pc' = PcOf(tasks)
            /\ result' = result

\* two calls of hmac made one after the other under one key, each up to its
\* first suspension; their provider promises then settle in any order
CallHmacTwice ==
    /\ pc = "idle"
    /\ \E in \in TwiceInputs, m1 \in Values, m2 \in Values :
        LET tasks == <<hmacEnter(in.secretKey, m1, in.algorithm),
                       hmacEnter(in.secretKey, m2, in.algorithm)>>
        IN  /\ op' = "hmac"
            /\ args' = [secretKey |-> in.secretKey, message |-> <<m1, m2>>,
                        algorithm |-> in.algorithm]
            /\ hm' = tasks
            /\ log' = Issued(tasks, 1) \o Issued(tasks, 2)
            /\ pc' = PcOf(tasks)
            /\ result' = result

\* the provider fulfils generateKey with a key of random material
GenerateKeyResolved ==
    /\ pc = "generateKey"
    /\ \E m \in KeyMaterials :
        LET key == ProviderGenerateKey(log[1], m)
            next == Compare(args.left, args.right, args.options, key, log)
        IN  IF op = "generateSecretKey"
            THEN /\ result' = Return(key)
                 /\ pc' = "done"
                 /\ UNCHANGED <<hm, log>>
            ELSE /\ result' = next.result
                 /\ hm' = next.hm
                 /\ log' = next.log
                 /\ pc' = PcOf(next.hm)
    /\ UNCHANGED <<op, args>>

\* the provider rejects generateKey
GenerateKeyRejected ==
    /\ pc = "generateKey"
    /\ result' = Throw(ProviderFailure)
    /\ pc' = "done"
    /\ UNCHANGED <<op, args, hm, log>>

\* what the settling of invocation i does to the operation's promise
Settled(tasks, i) ==
    IF op = "webTimingSafeEqual" THEN PromiseAll(result, tasks, i) ELSE result

\* the provider fulfils importKey of invocation i, which goes on to sign
ImportKeyResolved(i) ==
    /\ hm[i].pc = "importKey"
    /\ LET tasks == [hm EXCEPT ![i].pc = "sign",
                               ![i].cryptoKey =
                                   ProviderImportKey(hm[i].keyUint8Array,
                                                     hm[i].algorithm)]
       IN  /\ hm' = tasks
           /\ log' = Append(log, SignCall(tasks, i))
    /\ UNCHANGED <<op, args, pc, result>>

\* the provider rejects importKey of invocation i
ImportKeyRejected(i) ==
    /\ hm[i].pc = "importKey"
    /\ LET tasks == [hm EXCEPT ![i].pc = "failed",
                               ![i].result = Throw(ProviderFailure)]
       IN  /\ hm' = tasks
           /\ result' = Settled(tasks, i)
           /\ pc' = PcOf(tasks)
    /\ UNCHANGED <<op, args, log>>

\* the provider fulfils sign of invocation i, which returns the hex digest
SignResolved(i) ==
    /\ hm[i].pc = "sign"
    /\ LET signature == ProviderSign(hm[i].cryptoKey, SignedMessage(hm, i))
           tasks == [hm EXCEPT ![i].pc = "done",
                               ![i].result = Return(HashHex(signature))]
       IN  /\ hm' = tasks
           /\ result' = Settled(tasks, i)
           /\ pc' = PcOf(tasks)
    /\ UNCHANGED <<op, args, log>>

\* the provider rejects sign of invocation i
SignRejected(i) ==
    /\ hm[i].pc = "sign"
    /\ LET tasks == [hm EXCEPT ![i].pc = "failed",
                               ![i].result = Throw(ProviderFailure)]
       IN  /\ hm' = tasks
           /\ result' = Settled(tasks, i)
           /\ pc' = PcOf(tasks)
    /\ UNCHANGED <<op, args, log>>

\* the operation is over and nothing of it is retained
Finish ==
    /\ pc = "done"
    /\ op' = "idle"
    /\ args' = <<>>
    /\ pc' = "idle"
    /\ result' = Pending
    /\ hm' = NoTasks
    /\ log' = <<>>

Next ==
    \/ CallWebTimingSafeEqual
    \/ CallGenerateSecretKey
    \/ CallHmac
    \/ CallHmacTwice
    \/ GenerateKeyResolved
    \/ GenerateKeyRejected
    \/ \E i \in Tasks : ImportKeyResolved(i)
    \/ \E i \in Tasks : ImportKeyRejected(i)
    \/ \E i \in Tasks : SignResolved(i)
    \/ \E i \in Tasks : SignRejected(i)
    \/ Finish

Spec == Init /\ [][Next]_vars

(* ------------------------ vocabulary of the claims --------------------- *)

Wtse == op = "webTimingSafeEqual"
Ended == result.kind # "pending"
ReturnedBool(b) == result.kind = "return" /\ result.value = b
Threw(e) == result.kind = "throw" /\ result.value = e

WellFormed(value) == value.type = "string" \/ value.type = "Uint8Array"

\* UTF-8 of the code units used as input, written out by hand
Utf8Table(c) ==
    CASE c = 97 -> <<97>>
      [] c = 107 -> <<107>>
      [] c = 233 -> <<195, 169>>

RECURSIVE Utf8Expected(_)
Utf8Expected(s) ==
    IF s = <<>> THEN <<>> ELSE Utf8Table(Head(s)) \o Utf8Expected(Tail(s))

\* the byte content of a well-formed value
Content(value) == IF value.type = "string" THEN Utf8Expected(value.v) ELSE value.v

Supported(a) == a.type = "string" /\ a.v \in {"SHA-1", "SHA-256", "SHA-384", "SHA-512"}
AbsentOrSupported(a) == a = Undefined \/ Supported(a)
SuppliedUnsupported(a) == a # Undefined /\ ~Supported(a)
ValidKey(k) == k.type \in {"CryptoKey", "Uint8Array", "string"}

LogOf(fn) == {n \in 1..Len(log) : log[n].fn = fn}
NoHmacCalls == LogOf("importKey") = {} /\ LogOf("sign") = {}
NoProviderCalls == log = <<>>

ShortCircuits(l, r) ==
    WellFormed(l) /\ WellFormed(r)
    /\ (Len(Content(l)) # Len(Content(r)) \/ Len(Content(l)) = 0 \/ Len(Content(r)) = 0)

(* --------------------------------- C1 ---------------------------------- *)

\* C1 as stated (read with a provider that does not fail): for well-formed
\* left and right whose bytes differ in length or are empty, and every options
\* value, webTimingSafeEqual returns false and makes no importKey and no sign
\* call.
C1_AsStated ==
    (Wtse /\ ShortCircuits(args.left, args.right))
        => (NoHmacCalls /\ ((Ended /\ ~Threw(ProviderFailure)) => ReturnedBool(FALSE)))

\* C1 amended: the same, for options whose keyAlgorithm and hmacAlgorithm are
\* each absent or supported, and provided key generation does not fail.
C1_ShortCircuit ==
    (/\ Wtse
     /\ ShortCircuits(args.left, args.right)
     /\ AbsentOrSupported(args.options.keyAlgorithm)
     /\ AbsentOrSupported(args.options.hmacAlgorithm))
        => (NoHmacCalls /\ ((Ended /\ ~Threw(ProviderFailure)) => ReturnedBool(FALSE)))

\* compare("", "") has returned false after generating a key
C1_Witness ==
    /\ Wtse
    /\ args.left = Str(<<>>) /\ args.right = Str(<<>>)
    /\ args.options = Options(Undefined, Undefined, Undefined, Undefined)
    /\ ReturnedBool(FALSE)
    /\ NoHmacCalls

(* --------------------------------- C2 ---------------------------------- *)

ProviderFailed ==
    Threw(ProviderFailure) \/ \E i \in Tasks : hm[i].result = Throw(ProviderFailure)

\* C2: for left and right of the same non-empty byte content (text or bytes,
\* or one of each), with default options or a valid secretKey and
\* hmacAlgorithm, webTimingSafeEqual returns true unless the provider fails.
C2_EqualIsTrue ==
    (/\ Wtse /\ Ended
     /\ WellFormed(args.left) /\ WellFormed(args.right)
     /\ Content(args.left) = Content(args.right)
     /\ Content(args.left) # <<>>
     /\ args.options.keyLength = Undefined
     /\ args.options.keyAlgorithm = Undefined
     /\ (args.options.secretKey = Undefined \/ ValidKey(args.options.secretKey))
     /\ AbsentOrSupported(args.options.hmacAlgorithm)
     /\ ~ProviderFailed)
        => ReturnedBool(TRUE)

\* a text was compared with its own UTF-8 bytes, and the call returned true
C2_Witness ==
    /\ Wtse
    /\ args.left = Str(<<233>>) /\ args.right = U8(<<195, 169>>)
    /\ ReturnedBool(TRUE)

(* --------------------------------- C3 ---------------------------------- *)

ValidOptions(o) ==
    /\ o.secretKey = Undefined \/ ValidKey(o.secretKey)
    /\ o.keyLength = Undefined \/ (o.keyLength.type = "number" /\ o.keyLength.v > 0)
    /\ AbsentOrSupported(o.keyAlgorithm)
    /\ AbsentOrSupported(o.hmacAlgorithm)

\* C3: for well-formed left and right of different byte content and valid
\* options, webTimingSafeEqual returns false and does not fail, unless the
\* provider fails.
C3_DifferentIsFalse ==
    (/\ Wtse /\ Ended
     /\ WellFormed(args.left) /\ WellFormed(args.right)
     /\ Content(args.left) # Content(args.right)
     /\ ValidOptions(args.options)
     /\ ~ProviderFailed)
        => ReturnedBool(FALSE)

\* two byte arrays of one length differing in their last byte went through
\* both HMACs and compared unequal
C3_Witness ==
    /\ Wtse
    /\ args.left = U8(<<195, 169>>) /\ args.right = U8(<<195, 195>>)
    /\ hm[1].pc = "done" /\ hm[2].pc = "done"
    /\ ReturnedBool(FALSE)

(* --------------------------------- C4 ---------------------------------- *)

KeyLengthBits(n) == IF n = Undefined THEN <<512>> ELSE <<n.v * 8>>
KeyHash(a) == IF a = Undefined THEN "SHA-256" ELSE a.v

\* C4: with a secretKey given, generateKey is not called and every HMAC runs
\* under that key; with none given, generateKey is called exactly once, with
\* the hash options.keyAlgorithm (SHA-256 when absent) and the length
\* options.keyLength * 8 bits (512 when absent).
C4_KeyResolution ==
    (/\ Wtse
     /\ AbsentOrSupported(args.options.keyAlgorithm)
     /\ AbsentOrSupported(args.options.hmacAlgorithm))
        => /\ Truthy(args.options.secretKey) =>
                /\ LogOf("generateKey") = {}
                /\ \A n \in LogOf("sign") :
                      IF args.options.secretKey.type = "CryptoKey"
                      THEN log[n].key = args.options.secretKey
                      ELSE log[n].key.v = Content(args.options.secretKey)
                /\ \A n \in LogOf("importKey") :
                      log[n].keyData = Content(args.options.secretKey)
           /\ args.options.secretKey = Undefined =>
                /\ LogOf("generateKey") = {1}
                /\ log[1].hash = KeyHash(args.options.keyAlgorithm)
                /\ log[1].length = KeyLengthBits(args.options.keyLength)

(* --------------------------------- C5 ---------------------------------- *)

\* C5: an algorithm that is supplied and unsupported makes each of the three
\* operations fail with InvalidAlgorithm before any provider call.
C5_InvalidAlgorithmFirst ==
    /\ (Wtse /\ (\/ SuppliedUnsupported(args.options.keyAlgorithm)
                 \/ SuppliedUnsupported(args.options.hmacAlgorithm)))
          => (Threw(InvalidAlgorithm) /\ NoProviderCalls)
    /\ (op = "generateSecretKey" /\ SuppliedUnsupported(args.options.algorithm))
          => (Threw(InvalidAlgorithm) /\ NoProviderCalls)
    /\ (op = "hmac" /\ SuppliedUnsupported(args.algorithm))
          => /\ \A i \in 1..Len(args.message) : hm[i].result = Throw(InvalidAlgorithm)
             /\ NoProviderCalls

(* --------------------------------- C6 ---------------------------------- *)

HexLength(name) ==
    CASE name = "SHA-1" -> 40
      [] name = "SHA-256" -> 64
      [] name = "SHA-384" -> 96
      [] name = "SHA-512" -> 128

\* C6: the hex string returned by hmac(key, message, alg) has the length fixed
\* by alg alone (64 for SHA-256, 128 for SHA-512), whatever the key and message.
C6_LengthByAlgorithm ==
    op = "hmac" =>
        \A i \in 1..Len(args.message) :
            hm[i].pc = "done" =>
                Len(hm[i].result.value) = HexLength(KeyHash(args.algorithm))

(* --------------------------------- C7 ---------------------------------- *)

\* what hmac(secretKey, message, algorithm) returns when nothing else runs
HmacAlone(secretKey, message, algorithm) ==
    LET alg == DefaultTo(algorithm, Alg("SHA-256"))
        key == IF secretKey.type = "CryptoKey" THEN secretKey
               ELSE ProviderImportKey(validateValueOrConvertToUint8Array(secretKey),
                                      alg.v)
    IN  HashHex(ProviderSign(key, validateValueOrConvertToUint8Array(message)))

\* C7: every hmac call that returns, alone or interleaved with another call
\* under the same key, returns the digest determined by its own key, message
\* and algorithm; calls with identical arguments return identical output.
C7_HmacIndependent ==
    op = "hmac" =>
        /\ \A i \in 1..Len(args.message) :
              hm[i].pc = "done" =>
                  hm[i].result.value =
                      HmacAlone(args.secretKey, args.message[i], args.algorithm)
        /\ \A i, j \in 1..Len(args.message) :
              (/\ hm[i].pc = "done" /\ hm[j].pc = "done"
               /\ Content(args.message[i]) = Content(args.message[j]))
                  => hm[i].result.value = hm[j].result.value

\* two calls under one raw key with different messages have both returned
C7_Witness ==
    /\ op = "hmac"
    /\ Len(args.message) = 2
    /\ args.secretKey.type = "string"
    /\ WellFormed(args.message[1]) /\ WellFormed(args.message[2])
    /\ Content(args.message[1]) # Content(args.message[2])
    /\ hm[1].pc = "done" /\ hm[2].pc = "done"
    /\ hm[1].result.value # hm[2].result.value

(* --------------------------------- C8 ---------------------------------- *)

\* C8, for supported algorithms and a provider that does not fail: a
\* malformed left, right or supplied secretKey makes webTimingSafeEqual fail
\* with InvalidInputType, whatever the other arguments.
C8_MalformedFails ==
    (/\ Wtse /\ Ended
     /\ AbsentOrSupported(args.options.keyAlgorithm)
     /\ AbsentOrSupported(args.options.hmacAlgorithm)
     /\ ~ProviderFailed
     /\ \/ ~WellFormed(args.left)
        \/ ~WellFormed(args.right)
        \/ (args.options.secretKey # Undefined /\ ~ValidKey(args.options.secretKey)))
        => Threw(InvalidInputType)

(* --------------------------------- C9 ---------------------------------- *)

\* C9: when webTimingSafeEqual ends in InvalidInputType or InvalidAlgorithm,
\* the provider has received no call from it.
C9_ValidationBeforeCrypto ==
    (Wtse /\ (Threw(InvalidInputType) \/ Threw(InvalidAlgorithm)))
        => NoProviderCalls

(* --------------------------------- C10 --------------------------------- *)

Failed(i) == hm[i].pc = "failed"
Done(i) == hm[i].pc = "done"

\* C10: once both HMACs are started, webTimingSafeEqual returns a boolean only
\* when both have returned, and it is the equality of the two hex strings; if
\* either fails, the call ends in the failure of a failed HMAC and returns no
\* boolean; no provider call is repeated.
C10_JoinOfBoth ==
    (Wtse /\ hm[1].pc # "unused") =>
        /\ result.kind = "return" =>
              /\ Done(1) /\ Done(2)
              /\ result.value = (hm[1].result.value = hm[2].result.value)
        /\ (Done(1) /\ Done(2)) => result.kind = "return"
        /\ (Failed(1) \/ Failed(2)) =>
              /\ result.kind = "throw"
              /\ \E i \in Tasks : Failed(i) /\ result.value = hm[i].result.value
        /\ (~Failed(1) /\ ~Failed(2) /\ ~(Done(1) /\ Done(2))) => ~Ended
        /\ \A i \in Tasks, fn \in {"importKey", "sign"} :
              Cardinality({n \in LogOf(fn) : log[n].task = i}) <= 1

\* the right HMAC has returned while the left one still awaits the provider
C10_Witness ==
    /\ Wtse
    /\ Done(2)
    /\ hm[1].pc \in {"importKey", "sign"}
    /\ ~Ended

====
